---- MODULE Spec2Model ----
(***************************************************************************)
(* The collapsible widget of mdl-ext (src/src/collapsible/collapsible.js). *)
(*                                                                         *)
(* The document is one parent whose children are element 0, a collapsible  *)
(* component, followed by NumSiblings siblings in document order.  An      *)
(* attribute value that the code splits, joins or puts in a selector (id,  *)
(* aria-controls) is a string: a sequence of symbols, where a symbol is    *)
(* the space or an indivisible identifier.  The other attribute values     *)
(* (aria-expanded, role, tabindex, nodeName) are TLA+ strings.             *)
(***************************************************************************)
EXTENDS Integers, Sequences, FiniteSets, TLC

\* Number of elements that follow the component under its parent.
NumSiblings == 2

Elems == 0 .. NumSiblings
Siblings == 1 .. NumSiblings
NoElem == 0 - 1

JS_COLLAPSIBLE == "mdlext-js-collapsible"
COLLAPSIBLE_CONTROL_CLASS == "mdlext-collapsible-control"
COLLAPSIBLE_REGION_CLASS == "mdlext-collapsible-region"
IS_UPGRADED == "is-upgraded"

\* An absent attribute (hasAttribute is false), for TLA+ string values and for
\* symbol strings.
NoAttr == "(absent)"
NoAttrS == << <<"absent", 0>> >>

\* Symbols: the space, the id the author may give to sibling i, and the ids
\* randomString can produce.
SP == <<"space", 0>>
AuthorId(i) == <<"id", i>>
RandomId(k) == <<"region-", k>>
RandomIds == 1 .. (NumSiblings + 1)

(***************************************************************************)
(* String functions of the JavaScript runtime.                             *)
(***************************************************************************)
\* String.prototype.toLowerCase on the values the model draws.
ToLowerCase(s) ==
  CASE s = "False" -> "false"
    [] s = "BUTTON" -> "button"
    [] s = "DIV" -> "div"
    [] OTHER -> s

\* Index of the first space of s, 0 when there is none.
FirstSpace(s) ==
  IF \E i \in 1 .. Len(s) : s[i] = SP
  THEN CHOOSE i \in 1 .. Len(s) : s[i] = SP /\ \A j \in 1 .. (i - 1) : s[j] # SP
  ELSE 0

\* s.split(' '): the empty string splits into one empty token.
RECURSIVE Split(_)
Split(s) ==
  IF FirstSpace(s) = 0
  THEN << s >>
  ELSE << SubSeq(s, 1, FirstSpace(s) - 1) >> \o Split(SubSeq(s, FirstSpace(s) + 1, Len(s)))

\* ids.join(' '): the empty list joins into the empty string.
RECURSIVE Join(_)
Join(ids) ==
  IF ids = << >> THEN << >>
  ELSE IF Len(ids) = 1 THEN ids[1]
  ELSE ids[1] \o << SP >> \o Join(Tail(ids))

Range(seq) == { seq[i] : i \in 1 .. Len(seq) }

(***************************************************************************)
(* The DOM: d.cls[e] is the classList of element e, d.attr[e] its          *)
(* attributes, d.ctl[e] the descendant of e with the control class.        *)
(***************************************************************************)
NoControl ==
  [present |-> FALSE, nodeName |-> NoAttr, expanded |-> NoAttr,
   controls |-> NoAttrS, role |-> NoAttr, tabindex |-> NoAttr]

\* document.querySelector(`#${id}`) on a selector that parses: the element
\* with that id, NoElem (null) when there is none.
QuerySelector(d, id) ==
  IF \E e \in Elems : d.attr[e].id = id
  THEN CHOOSE e \in Elems : d.attr[e].id = id /\ \A f \in 0 .. (e - 1) : d.attr[f].id # id
  ELSE NoElem

\* `#` followed by nothing is no selector: querySelector throws a SyntaxError.
SelectorThrows(id) == id = << >>

\* get regionIds
regionIds(d, c) ==
  IF d.ctl[c].controls # NoAttrS THEN Split(d.ctl[c].controls) ELSE << >>

\* get regionElements throws when one of the ids gives no selector.
regionElementsThrows(d, c) ==
  \E i \in 1 .. Len(regionIds(d, c)) : SelectorThrows(regionIds(d, c)[i])

RECURSIVE MapQuery(_, _)
MapQuery(d, ids) ==
  IF ids = << >> THEN << >>
  ELSE << QuerySelector(d, Head(ids)) >> \o MapQuery(d, Tail(ids))

NotNull(e) == e # NoElem

\* get regionElements, when it does not throw.
regionElements(d, c) == SelectSeq(MapQuery(d, regionIds(d, c)), NotNull)

\* The outcome of a call: the document it leaves and whether it threw.
Returned(d) == [d |-> d, threw |-> FALSE]
Threw(d) == [d |-> d, threw |-> TRUE]

SetControl(d, c, name, value) ==
  [d EXCEPT !.ctl[c] = [@ EXCEPT ![name] = value]]

SetAttr(d, e, name, value) ==
  [d EXCEPT !.attr[e] = [@ EXCEPT ![name] = value]]

\* regions.forEach(region => region.setAttribute('hidden', '')), or removeAttribute
SetHidden(d, regions, value) ==
  [d EXCEPT !.attr = [e \in Elems |->
     IF e \in Range(regions) THEN [d.attr[e] EXCEPT !.hidden = value] ELSE d.attr[e]]]

\* collapse(): the attribute is set before regionElements is evaluated.
collapse(d, c) ==
  LET d1 == SetControl(d, c, "expanded", "false")
  IN IF regionElementsThrows(d1, c) THEN Threw(d1)
     ELSE Returned(SetHidden(d1, regionElements(d1, c), TRUE))

\* expand()
expand(d, c) ==
  LET d1 == SetControl(d, c, "expanded", "true")
  IN IF regionElementsThrows(d1, c) THEN Threw(d1)
     ELSE Returned(SetHidden(d1, regionElements(d1, c), FALSE))

\* toggle() with the test inverted.
toggle_Inverted(d, c) ==
  IF ToLowerCase(d.ctl[c].expanded) = "false" THEN collapse(d, c) ELSE expand(d, c)

\* toggle()
toggle(d, c) ==
  IF ToLowerCase(d.ctl[c].expanded) = "false" THEN expand(d, c) ELSE collapse(d, c)

\* addRegionId that pushes the id without looking for it.
addRegionId_AlwaysPush(d, c, regionId) ==
  SetControl(d, c, "controls", Join(Append(regionIds(d, c), regionId)))

\* addRegionId(regionId)
addRegionId(d, c, regionId) ==
  IF \E i \in 1 .. Len(regionIds(d, c)) : regionIds(d, c)[i] = regionId /\ regionId # << >>
  THEN d
  ELSE SetControl(d, c, "controls", Join(Append(regionIds(d, c), regionId)))

\* randomString(): an id that no element of the document has.  The code only
\* compares ids for equality, so the unused ids are interchangeable and the
\* model takes the first of them.
randomString(d) ==
  CHOOSE k \in RandomIds :
    /\ \A e \in Elems : d.attr[e].id # << RandomId(k) >>
    /\ \A j \in 1 .. (k - 1) : \E e \in Elems : d.attr[e].id = << RandomId(j) >>

\* addRegionElement(region)
addRegionElement(d, c, region) ==
  LET d1 == IF d.attr[region].id = NoAttrS
            THEN SetAttr(d, region, "id", << RandomId(randomString(d)) >>) ELSE d
      d2 == [d1 EXCEPT !.cls[region] = @ \cup {COLLAPSIBLE_REGION_CLASS}]
      d3 == SetAttr(d2, region, "role", "region")
      d4 == SetAttr(d3, region, "hidden", ToLowerCase(d3.ctl[c].expanded) = "false")
      d5 == IF d4.attr[region].tabindex = NoAttr
            THEN SetAttr(d4, region, "tabindex", "-1") ELSE d4
  IN addRegionId(d5, c, d5.attr[region].id)

\* removeRegionElement(region): region.id is falsy when the element has no id.
removeRegionElement(d, c, region) ==
  IF d.attr[region].id # NoAttrS /\ d.attr[region].id # << >>
  THEN LET SameId(id) == id = d.attr[region].id
       IN SetControl(d, c, "controls", Join(SelectSeq(regionIds(d, c), SameId)))
  ELSE d

\* initControl that gives role=button to a <button> too.
initControl_RoleAlways(d, c) ==
  LET d1 == IF d.ctl[c].expanded = NoAttr THEN SetControl(d, c, "expanded", "false") ELSE d
      d2 == SetControl(d1, c, "role", "button")
  IN IF d2.ctl[c].tabindex = NoAttr THEN SetControl(d2, c, "tabindex", "0") ELSE d2

\* initControl of init(), after the control element was found.
initControl(d, c) ==
  LET d1 == IF d.ctl[c].expanded = NoAttr THEN SetControl(d, c, "expanded", "false") ELSE d
      d2 == IF ToLowerCase(d1.ctl[c].nodeName) # "button"
            THEN SetControl(d1, c, "role", "button") ELSE d1
  IN IF d2.ctl[c].tabindex = NoAttr THEN SetControl(d2, c, "tabindex", "0") ELSE d2

\* The sibling walk of initRegions, from element r on.
RECURSIVE SiblingRegions(_, _)
SiblingRegions(d, r) ==
  IF r > NumSiblings THEN << >>
  ELSE IF COLLAPSIBLE_REGION_CLASS \in d.cls[r] THEN << r >> \o SiblingRegions(d, r + 1)
  ELSE IF JS_COLLAPSIBLE \in d.cls[r] THEN << >>
  ELSE SiblingRegions(d, r + 1)

\* regions.forEach(region => this.addRegionElement(region))
RECURSIVE AddRegions(_, _, _)
AddRegions(d, c, regions) ==
  IF regions = << >> THEN d
  ELSE AddRegions(addRegionElement(d, c, Head(regions)), c, Tail(regions))

\* initRegions that walks the siblings whatever aria-controls says.
initRegions_AlwaysSiblings(d, c) ==
  IF d.ctl[c].controls # NoAttrS /\ regionElementsThrows(d, c) THEN Threw(d)
  ELSE Returned(AddRegions(d, c, SiblingRegions(d, c + 1)))

\* initRegions of init()
initRegions(d, c) ==
  IF d.ctl[c].controls = NoAttrS
  THEN Returned(AddRegions(d, c, SiblingRegions(d, c + 1)))
  ELSE IF regionElementsThrows(d, c) THEN Threw(d)
  ELSE Returned(AddRegions(d, c, regionElements(d, c)))

\* init() that goes on without a control element.
init_NoThrow(d, c) ==
  IF ~ d.ctl[c].present THEN Returned(d)
  ELSE initRegions(initControl(d, c), c)

\* Collapsible.init(), called by the constructor.
init(d, c) ==
  IF ~ d.ctl[c].present THEN Threw(d)
  ELSE initRegions(initControl(d, c), c)

\* MaterialExtCollapsible.prototype.init: the element is marked only when
\* the Collapsible was constructed.
MaterialExtCollapsibleInit(d, c) ==
  IF init(d, c).threw THEN init(d, c)
  ELSE Returned([init(d, c).d EXCEPT !.cls[c] = @ \cup {IS_UPGRADED}])

(***************************************************************************)
(* The state: the document, the elements that carry a widget instance, and *)
(* the last call made (its name, its component, its argument, whether it   *)
(* threw).                                                                 *)
(***************************************************************************)
VARIABLES cls, attr, ctl, widget, last

vars == << cls, attr, ctl, widget, last >>

DOM == [cls |-> cls, attr |-> attr, ctl |-> ctl]

Call(op, c, e, threw) == [op |-> op, c |-> c, e |-> e, threw |-> threw]

(***************************************************************************)
(* The markup before any upgrade.                                          *)
(***************************************************************************)
\* A sibling as the author wrote it: without role, tabindex and hidden, or
\* with all three.
BareMarkup == [role |-> NoAttr, tabindex |-> NoAttr, hidden |-> FALSE]
AuthoredMarkup == [role |-> "note", tabindex |-> "102", hidden |-> TRUE]

Element(id, m) ==
  [id |-> id, role |-> m.role, tabindex |-> m.tabindex, hidden |-> m.hidden]

AuthorExpanded == {NoAttr, "false", "true", "False", "undefined"}

\* aria-controls as the author wrote it: absent, empty, the id of the last
\* sibling, or the ids of the last and of the first sibling.
AuthorControls ==
  { NoAttrS, << >>, << AuthorId(NumSiblings) >>,
    << AuthorId(NumSiblings), SP, AuthorId(1) >> }

Controls ==
  { [present |-> TRUE, nodeName |-> n, expanded |-> x, controls |-> a,
     role |-> m.role, tabindex |-> m.tabindex] :
       n \in {"BUTTON", "DIV"}, x \in AuthorExpanded, a \in AuthorControls,
       m \in { [role |-> NoAttr, tabindex |-> NoAttr],
               [role |-> "link", tabindex |-> "101"] } }

\* The documents in which element 0 is a component with control element k
\* (NoControl: without one) and every sibling draws its classes from classes
\* and its role, tabindex and hidden from markups.
Documents(controls, classes, markups) ==
  { [cls |-> [e \in Elems |-> IF e = 0 THEN {JS_COLLAPSIBLE} ELSE m[e].cls],
     attr |-> [e \in Elems |->
                IF e = 0 THEN Element(NoAttrS, BareMarkup)
                ELSE Element(IF m[e].hasId THEN << AuthorId(e) >> ELSE NoAttrS, m[e].markup)],
     ctl |-> [e \in Elems |-> IF e = 0 THEN k ELSE NoControl]] :
       k \in controls,
       m \in [Siblings -> [cls : classes, hasId : BOOLEAN, markup : markups]] }

InitWith(documents) ==
  /\ \E d \in documents : cls = d.cls /\ attr = d.attr /\ ctl = d.ctl
  /\ widget = {}
  /\ last = Call("none", NoElem, NoElem, FALSE)

\* Any markup: a component with or without a control element, siblings of
\* any class.
InitMarkup ==
  InitWith(Documents(Controls \cup {NoControl},
                     SUBSET {JS_COLLAPSIBLE, COLLAPSIBLE_REGION_CLASS},
                     {BareMarkup, AuthoredMarkup}))

\* Markup with a <button> control, without author-supplied role and tabindex
\* and with no other component among the siblings.
Init ==
  InitWith(Documents({ k \in Controls : k.nodeName = "BUTTON" /\ k.role = NoAttr },
                     SUBSET {COLLAPSIBLE_REGION_CLASS},
                     {BareMarkup}))

\* Two components among the siblings of one parent, element 0 and a later
\* element b, each with a <button> control without aria-controls; b may carry
\* the region class too, the other siblings are regions or plain elements.
TwoComponents ==
  { [cls |-> [e \in Elems |-> IF e = 0 THEN {JS_COLLAPSIBLE}
                              ELSE IF e = b THEN {JS_COLLAPSIBLE} \cup m[e].cls
                              ELSE m[e].cls],
     attr |-> [e \in Elems |->
                IF e = 0 THEN Element(NoAttrS, BareMarkup)
                ELSE Element(IF m[e].hasId THEN << AuthorId(e) >> ELSE NoAttrS, BareMarkup)],
     ctl |-> [e \in Elems |-> IF e = 0 THEN ka ELSE IF e = b THEN kb ELSE NoControl]] :
       ka \in { k \in Controls : k.nodeName = "BUTTON" /\ k.role = NoAttr /\ k.controls = NoAttrS },
       kb \in { k \in Controls : k.nodeName = "BUTTON" /\ k.role = NoAttr /\ k.controls = NoAttrS },
       b \in Siblings,
       m \in [Siblings -> [cls : SUBSET {COLLAPSIBLE_REGION_CLASS}, hasId : BOOLEAN]] }

InitTwo == InitWith(TwoComponents)

(***************************************************************************)
(* The calls.                                                              *)
(***************************************************************************)
Becomes(r, w, call) ==
  /\ cls' = r.d.cls
  /\ attr' = r.d.attr
  /\ ctl' = r.d.ctl
  /\ widget' = w
  /\ last' = call

\* componentHandler.upgradeElement(c): new MaterialExtCollapsible(c)
Upgrade(c) ==
  /\ JS_COLLAPSIBLE \in cls[c]
  /\ c \notin widget
  /\ LET r == MaterialExtCollapsibleInit(DOM, c)
     IN Becomes(r, IF r.threw THEN widget ELSE widget \cup {c},
                Call("upgrade", c, NoElem, r.threw))

\* MaterialExtCollapsible.prototype.expand
Expand(c) ==
  /\ c \in widget
  /\ Becomes(expand(DOM, c), widget, Call("expand", c, NoElem, expand(DOM, c).threw))

\* MaterialExtCollapsible.prototype.collapse
Collapse(c) ==
  /\ c \in widget
  /\ Becomes(collapse(DOM, c), widget, Call("collapse", c, NoElem, collapse(DOM, c).threw))

\* MaterialExtCollapsible.prototype.toggle
Toggle(c) ==
  /\ c \in widget
  /\ Becomes(toggle(DOM, c), widget, Call("toggle", c, NoElem, toggle(DOM, c).threw))

\* MaterialExtCollapsible.prototype.addRegionElements, with one element
AddRegionElements(c, e) ==
  /\ c \in widget
  /\ Becomes(Returned(addRegionElement(DOM, c, e)), widget,
             Call("addRegionElements", c, e, FALSE))

\* MaterialExtCollapsible.prototype.removeRegionElements, with one element
RemoveRegionElements(c, e) ==
  /\ c \in widget
  /\ Becomes(Returned(removeRegionElement(DOM, c, e)), widget,
             Call("removeRegionElements", c, e, FALSE))

Next ==
  \/ \E c \in Elems : Upgrade(c)
  \/ \E c \in Elems : Expand(c)
  \/ \E c \in Elems : Collapse(c)
  \/ \E c \in Elems : Toggle(c)
  \/ \E c \in Elems, e \in Siblings : AddRegionElements(c, e)
  \/ \E c \in Elems, e \in Siblings : RemoveRegionElements(c, e)

Spec == Init /\ [][Next]_vars

\* Upgrades only, of any markup.
NextUpgrade == \E c \in Elems : Upgrade(c)

SpecUpgrade == InitMarkup /\ [][NextUpgrade]_vars

\* Upgrades of any markup, followed by expand, collapse and toggle only.
NextToggle ==
  \/ \E c \in Elems : Upgrade(c)
  \/ \E c \in Elems : Expand(c)
  \/ \E c \in Elems : Collapse(c)
  \/ \E c \in Elems : Toggle(c)

SpecToggle == InitMarkup /\ [][NextToggle]_vars

\* Two components, upgraded in either order, with expand, collapse and toggle.
SpecTwo == InitTwo /\ [][NextToggle]_vars

(***************************************************************************)
(* Vocabulary of the properties.                                           *)
(***************************************************************************)
Hidden(d, e) == d.attr[e].hidden

\* The elements getRegionElements returns, none when it throws.
Regions(d, c) ==
  IF regionElementsThrows(d, c) THEN {} ELSE Range(regionElements(d, c))

\* C1: for an initialized collapsible, after any sequence of its calls, every
\* element returned by getRegionElements has the hidden attribute if and only
\* if aria-expanded is 'false' (compared as the code compares it, in lower
\* case).
C1_InSync ==
  \A c \in widget : \A e \in Regions(DOM, c) :
    Hidden(DOM, e) <=> (ToLowerCase(ctl[c].expanded) = "false")

\* The elements whose id is listed in aria-controls.
Controlled(d, c) ==
  { e \in Elems : d.attr[e].id # NoAttrS /\ d.attr[e].id # << >>
                   /\ d.attr[e].id \in Range(regionIds(d, c)) }

RemoveOther(seq, e) ==
  LET Other(x) == x # e IN SelectSeq(seq, Other)

\* C2: removeRegionElements(r) of a controlled region r leaves
\* getRegionElements without r and with every other region it had, and
\* changes no attribute and no class of any element.
C2_RemoveRemoves ==
  \A c \in widget : \A r \in Regions(DOM, c) :
    LET d2 == removeRegionElement(DOM, c, r)
    IN /\ ~ regionElementsThrows(d2, c)
       /\ regionElements(d2, c) = RemoveOther(regionElements(DOM, c), r)
       /\ d2.attr = attr
       /\ d2.cls = cls

\* An attribute the markup gives keeps its value.
Kept(before, after) == before # NoAttr => after = before
KeptS(before, after) == before # NoAttrS => after = before

\* The document after the step.
DOMAfter == [cls |-> cls', attr |-> attr', ctl |-> ctl']

\* The step is an upgrade of component c that returns; the state before it
\* is the markup.
Upgrades(c) == c \notin widget /\ c \in widget'

\* C3: an upgrade that returns leaves the control's aria-expanded,
\* aria-controls, role and tabindex, and each associated region's id, role,
\* tabindex and hidden, as the markup gave them (of hidden only its presence
\* is taken as given, which is the reading most favourable to the code).
C3_MarkupKept ==
  [][\A c \in Elems :
      Upgrades(c) =>
        /\ Kept(ctl[c].expanded, ctl'[c].expanded)
        /\ KeptS(ctl[c].controls, ctl'[c].controls)
        /\ Kept(ctl[c].role, ctl'[c].role)
        /\ Kept(ctl[c].tabindex, ctl'[c].tabindex)
        /\ \A e \in Regions(DOMAfter, c) :
             /\ KeptS(attr[e].id, attr'[e].id)
             /\ Kept(attr[e].role, attr'[e].role)
             /\ Kept(attr[e].tabindex, attr'[e].tabindex)
             /\ attr[e].hidden => attr'[e].hidden]_vars

\* C4: upgrading an element without a control element throws, marks nothing
\* as upgraded and changes no attribute of any element.
C4_MissingControlThrows ==
  /\ \A c \in Elems :
       (JS_COLLAPSIBLE \in cls[c] /\ ~ ctl[c].present) =>
         /\ MaterialExtCollapsibleInit(DOM, c).threw
         /\ MaterialExtCollapsibleInit(DOM, c).d = DOM
  /\ (last.op = "upgrade" /\ ~ ctl[last.c].present) =>
       /\ last.threw
       /\ last.c \notin widget
       /\ IS_UPGRADED \notin cls[last.c]

C4_Witness ==
  /\ last.op = "upgrade" /\ last.threw
  /\ ~ ctl[last.c].present
  /\ IS_UPGRADED \notin cls[last.c]

\* The last call upgraded component c and returned.
JustUpgraded(c) == last.op = "upgrade" /\ last.c = c /\ ~ last.threw

\* The markup gives component c a control element and none of the
\* accessibility attributes, on the control or on a sibling.
NoAccessibilityMarkup(c) ==
  /\ ctl[c].present
  /\ ctl[c].expanded = NoAttr /\ ctl[c].controls = NoAttrS
  /\ ctl[c].role = NoAttr /\ ctl[c].tabindex = NoAttr
  /\ \A e \in Siblings : /\ attr[e].role = NoAttr
                            /\ attr[e].tabindex = NoAttr
                            /\ ~ attr[e].hidden

\* What C5 says of the control apart from aria-controls, and of the regions.
DefaultAttributes(d, c) ==
  /\ d.ctl[c].expanded = "false"
  /\ d.ctl[c].tabindex = "0"
  /\ d.ctl[c].role = (IF d.ctl[c].nodeName = "BUTTON" THEN NoAttr ELSE "button")
  /\ ~ regionElementsThrows(d, c)
  /\ \A e \in Regions(d, c) :
       /\ d.attr[e].id # NoAttrS
       /\ d.attr[e].role = "region"
       /\ d.attr[e].tabindex = "-1"
       /\ d.attr[e].hidden
       /\ COLLAPSIBLE_REGION_CLASS \in d.cls[e]

\* C5 as claimed: without accessibility markup, the upgraded control has
\* aria-expanded='false', tabindex='0', an aria-controls attribute and
\* role='button' exactly when it is not a <button>, and every region has an
\* id, role='region', tabindex='-1', hidden and the region class.
C5_Claimed ==
  [][\A c \in Elems :
      (Upgrades(c) /\ NoAccessibilityMarkup(c)) =>
        /\ DefaultAttributes(DOMAfter, c)
        /\ ctl'[c].controls # NoAttrS]_vars

\* C5 as amended: the same, with an aria-controls attribute exactly when at
\* least one region is associated.
C5_Defaults ==
  [][\A c \in Elems :
      (Upgrades(c) /\ NoAccessibilityMarkup(c)) =>
        /\ DefaultAttributes(DOMAfter, c)
        /\ ctl'[c].controls # NoAttrS <=> Regions(DOMAfter, c) # {}]_vars

\* A <div> control upgraded to the defaults, with every sibling a region.
C5_Witness ==
  \E c \in Elems :
    /\ JustUpgraded(c)
    /\ ctl[c].nodeName = "DIV" /\ ctl[c].role = "button"
    /\ ctl[c].expanded = "false" /\ ctl[c].tabindex = "0"
    /\ Cardinality(Regions(DOM, c)) = NumSiblings
    /\ \A e \in Siblings : attr[e].role = "region" /\ attr[e].tabindex = "-1"

\* The siblings after c, in document order.
Following(c) == SubSeq([i \in 1 .. NumSiblings |-> i], c + 1, NumSiblings)

\* The regions C6 names: the following siblings with the region class that
\* precede the first following sibling with the component class.
ClaimedSiblingRegions(c) ==
  LET Named(i) ==
        /\ COLLAPSIBLE_REGION_CLASS \in cls[i]
        /\ \A j \in (c + 1) .. i : JS_COLLAPSIBLE \notin cls[j]
  IN SelectSeq(Following(c), Named)

\* C6: without aria-controls in the markup, the upgrade returns, the regions
\* are the ones named above and aria-controls lists their ids in document
\* order.
C6_SiblingRegions ==
  [][\A c \in Elems :
      (last'.op = "upgrade" /\ last'.c = c /\ c \notin widget
       /\ ctl[c].present /\ ctl[c].controls = NoAttrS) =>
        /\ Upgrades(c)
        /\ ~ regionElementsThrows(DOMAfter, c)
        /\ regionElements(DOMAfter, c) = ClaimedSiblingRegions(c)
        /\ regionIds(DOMAfter, c) =
             [i \in 1 .. Len(ClaimedSiblingRegions(c)) |->
                attr'[ClaimedSiblingRegions(c)[i]].id]]_vars

\* The elements whose id is listed in the aria-controls of c, in the order
\* of the list.
RECURSIVE Resolve(_)
Resolve(ids) ==
  IF ids = << >> THEN << >>
  ELSE (IF \E e \in Elems : attr[e].id = Head(ids)
        THEN << CHOOSE e \in Elems : attr[e].id = Head(ids) >>
        ELSE << >>) \o Resolve(Tail(ids))

ListedElements(c) == Resolve(Split(ctl[c].controls))

Canonical(x) == x \in {"true", "false"}

SameButState(d, c) ==
  /\ d.ctl[c].controls = ctl[c].controls
  /\ d.ctl[c].role = ctl[c].role
  /\ d.ctl[c].tabindex = ctl[c].tabindex
  /\ d.cls = cls
  /\ \A e \in Elems : /\ d.attr[e].id = attr[e].id
                         /\ d.attr[e].role = attr[e].role
                         /\ d.attr[e].tabindex = attr[e].tabindex

\* C9: from any state of an initialized collapsible expand() leaves
\* aria-expanded='true' and no controlled region hidden, collapse() leaves
\* aria-expanded='false' and every controlled region hidden; both are
\* idempotent and change nothing else.
C9_ExpandCollapse ==
  \A c \in widget :
    LET ex == expand(DOM, c).d
        co == collapse(DOM, c).d
    IN /\ ex.ctl[c].expanded = "true"
       /\ \A e \in Controlled(ex, c) : ~ ex.attr[e].hidden
       /\ co.ctl[c].expanded = "false"
       /\ \A e \in Controlled(co, c) : co.attr[e].hidden
       /\ expand(ex, c).d = ex
       /\ collapse(co, c).d = co
       /\ SameButState(ex, c)
       /\ SameButState(co, c)

\* What C9 says of the regions getRegionElements returns, which are none
\* when it throws: this much holds.
C9_WhenReturning ==
  \A c \in widget :
    LET ex == expand(DOM, c).d
        co == collapse(DOM, c).d
    IN /\ ex.ctl[c].expanded = "true"
       /\ \A e \in Regions(ex, c) : ~ ex.attr[e].hidden
       /\ co.ctl[c].expanded = "false"
       /\ \A e \in Regions(co, c) : co.attr[e].hidden
       /\ expand(ex, c).d = ex
       /\ collapse(co, c).d = co
       /\ SameButState(ex, c)
       /\ SameButState(co, c)

\* What C10 says of addRegionElements(e) where getRegionElements returned
\* before the call.
AddedTo(d, c, e) ==
  /\ ~ regionElementsThrows(d, c)
  /\ regionElements(d, c) =
       (IF e \in Regions(DOM, c) THEN regionElements(DOM, c)
        ELSE Append(regionElements(DOM, c), e))
  /\ \A i, j \in 1 .. Len(regionIds(d, c)) :
       (regionIds(d, c)[i] = d.attr[e].id /\ regionIds(d, c)[j] = d.attr[e].id) => i = j
  /\ COLLAPSIBLE_REGION_CLASS \in d.cls[e]
  /\ d.attr[e].hidden <=> (ToLowerCase(d.ctl[c].expanded) = "false")
  /\ d.attr[e].id # NoAttrS
  /\ KeptS(attr[e].id, d.attr[e].id)

\* C10: addRegionElements(e) on an initialized collapsible makes e a
\* controlled region: getRegionElements is the previous list plus e, e has
\* the region class, is hidden exactly when aria-expanded is 'false' (as the
\* code compares it), keeps its id or is given one.
C10_AddAdds ==
  \A c \in widget : \A e \in Siblings :
    LET d2 == addRegionElement(DOM, c, e)
    IN /\ e \in Regions(d2, c)
       /\ ~ regionElementsThrows(DOM, c) => AddedTo(d2, c, e)

\* What C10 says of the states in which getRegionElements returns: this
\* much holds.
C10_WhenReturning ==
  \A c \in widget : \A e \in Siblings :
    ~ regionElementsThrows(DOM, c) => AddedTo(addRegionElement(DOM, c, e), c, e)

(***************************************************************************)
(* C11: running the initialization a second time, in a state reached by    *)
(* expand, collapse and toggle after the first one, does not throw, changes*)
(* no attribute and no class of the control or of any element, and leaves  *)
(* the list of controlled regions the same.                                *)
(***************************************************************************)
Reinitialized(c) == MaterialExtCollapsibleInit(DOM, c)

C11_InitIdempotent ==
  \A c \in widget :
    LET r == Reinitialized(c)
    IN /\ ~ r.threw
       /\ r.d.ctl[c] = ctl[c]
       /\ r.d.attr = attr
       /\ r.d.cls = cls
       /\ regionElements(r.d, c) = regionElements(DOM, c)

\* An upgraded component with a region, expanded by its last call.
C11_Witness ==
  \E c \in widget :
    /\ last.op \in {"expand", "toggle"} /\ last.c = c /\ ~ last.threw
    /\ ctl[c].expanded = "true"
    /\ Regions(DOM, c) # {}
    /\ \A e \in Regions(DOM, c) : ~ Hidden(DOM, e)

(***************************************************************************)
(* C12: after a successful initialization no sequence of public calls      *)
(* brings the component to a state where getRegionElements, expand,        *)
(* collapse or toggle throws: aria-controls never lists an empty id, and   *)
(* removeRegionElements of an element with an id that is not a controlled  *)
(* region leaves the list of controlled regions as it was.                 *)
(***************************************************************************)
HasEmptyId(d, c) == \E i \in 1 .. Len(regionIds(d, c)) : regionIds(d, c)[i] = << >>

C12_NeverThrows ==
  \A c \in widget :
    /\ ~ HasEmptyId(DOM, c)
    /\ ~ regionElementsThrows(DOM, c)
    /\ ~ expand(DOM, c).threw
    /\ ~ collapse(DOM, c).threw
    /\ ~ toggle(DOM, c).threw
    /\ \A e \in Siblings :
         (attr[e].id # NoAttrS /\ e \notin Controlled(DOM, c)) =>
           LET d2 == removeRegionElement(DOM, c, e)
           IN /\ ~ regionElementsThrows(d2, c)
              /\ regionElements(d2, c) = regionElements(DOM, c)

(***************************************************************************)
(* C13: two upgraded components that are siblings and have no              *)
(* author-supplied aria-controls control no region in common, and expand,  *)
(* collapse and toggle of one of them change neither aria-expanded of the  *)
(* other's control nor the hidden attribute of any of the other's regions. *)
(***************************************************************************)
LeavesAlone(r, o) ==
  /\ r.d.ctl[o].expanded = ctl[o].expanded
  /\ \A e \in Regions(DOM, o) : Hidden(r.d, e) = Hidden(DOM, e)

Independent(c, o) ==
  /\ Regions(DOM, c) \cap Regions(DOM, o) = {}
  /\ LeavesAlone(expand(DOM, c), o)
  /\ LeavesAlone(collapse(DOM, c), o)
  /\ LeavesAlone(toggle(DOM, c), o)

C13_Independent ==
  \A c \in widget : \A o \in widget \ {c} : Independent(c, o)

\* The same, of components that do not carry the region class themselves.
C13_WhenNotRegion ==
  \A c \in widget : \A o \in widget \ {c} :
    (\A x \in widget : COLLAPSIBLE_REGION_CLASS \notin cls[x]) => Independent(c, o)

====
